---- MODULE Spec2Model ----
(***************************************************************************)
(* Spaced-repetition scheduling, review queue and progress tracking of the *)
(* Arabic Learning Extension (spacedRepetition.ts, database.ts,            *)
(* progressAnalytics.ts) and the browsing-pause check of background.ts.    *)
(*                                                                         *)
(* Units.  Timestamps are whole hours since the epoch (the code works in   *)
(* milliseconds; every duration it adds is a whole number of hours).  Ease *)
(* factors are thousandths (2.5 is 2500).  Qualities are halves (quality 5 *)
(* is 10, quality 2.5 is 5), so that the ease-factor delta                 *)
(*   0.1 - (5 - q) * (0.08 + (5 - q) * 0.02)                               *)
(* is the whole number of thousandths 100 - 40*d - 5*d*d with d = 10 - 2q. *)
(* Calendar dates ("YYYY-MM-DD" of toISOString) are whole UTC day numbers; *)
(* the string order of such dates is the order of the day numbers.         *)
(***************************************************************************)
EXTENDS Integers, Sequences, FiniteSets, TLC

VARIABLES
    now,          \* the wall clock (new Date() / Date.now()), in hours
    lastOp,       \* name of the operation that produced the current state
    item,         \* spacedRepetition: the ReviewItem handed to calculateNextReview
    quality,      \* spacedRepetition: the quality of the last call (halves)
    result,       \* spacedRepetition: what the last calculateNextReview call returned
    calls,        \* spacedRepetition: number of calculateNextReview calls so far
    progress,     \* database: the 'progress' object store, wordId -> UserProgress
    tasks,        \* database: the updateVocabularyProgress calls in flight
    reviewed,     \* database: per wordId, the outcomes of the completed calls
    due,          \* database: what the getVocabularyForReview call that just returned gave
    settings,     \* database: the 'settings' object store (statistics keys)
    procs,        \* progressAnalytics: the updateLearningStats calls in flight
    recorded,     \* progressAnalytics: outcomes and days of the completed calls
    before,       \* progressAnalytics: the settings store before the last completed call
    returned,     \* progressAnalytics: what the last completed call gave its caller
    minute,       \* background: the clock of the service worker (Date.now()), in minutes
    lastActiveTime,        \* background: the module variable of that name
    lastActivity,          \* background: time of the last tab update or activation
    nextAlarm,             \* background: when the checkBrowsingPause alarm fires next
    notificationsEnabled,  \* background: the setting of that name
    notification  \* background: what the last checkBrowsingActivity call did

vars == <<now, lastOp, item, quality, result, calls, progress, tasks, reviewed,
          due, settings, procs, recorded, before, returned, minute, lastActiveTime,
          lastActivity, nextAlarm, notificationsEnabled, notification>>

schedVars == <<item, quality, result, calls>>
dbVars    == <<progress, tasks, reviewed, due>>
statVars  == <<settings, procs, recorded, before, returned>>
bgVars    == <<minute, lastActiveTime, lastActivity, nextAlarm, notificationsEnabled,
               notification>>

-----------------------------------------------------------------------------
(* Units and program constants                                             *)

HoursPerDay == 24
EaseUnit    == 1000
DefaultEase == 2500
MinEase     == 1300
MaxEase     == 3000
MinQuality  == 0
MaxQuality  == 10
Undefined   == -1

(* Bounds of the model *)
MaxItemHalfDays == 5      \* item timestamps range over 0..MaxItemHalfDays half days
MaxCalls        == 3      \* calculateNextReview calls in one behaviour

Max(a, b) == IF a >= b THEN a ELSE b
Min(a, b) == IF a <= b THEN a ELSE b

\* Math.round: the nearest integer, halves rounded up; x is n/d with d > 0
Round(n, d) == (2 * n + d) \div (2 * d)

\* Math.ceil of n/d with d > 0
Ceil(n, d) == 0 - ((0 - n) \div d)

-----------------------------------------------------------------------------
(* spacedRepetition.ts: calculateNextReview                                *)

\* the qualities a caller may pass: -1, -0.5, 0, ..., 5.5, 6
Qualities == (MinQuality - 2)..(MaxQuality + 2)

\* quality = Math.max(0, Math.min(5, quality))
ClampQuality(q) == Max(MinQuality, Min(MaxQuality, q))

\* 0.1 - (5 - quality) * (0.08 + (5 - quality) * 0.02), in thousandths
EaseDelta(q) == 100 - 40 * (MaxQuality - q) - 5 * (MaxQuality - q) * (MaxQuality - q)

\* item.easeFactor || 2.5 : an absent or zero ease factor reads as 2.5
EaseOrDefault(e) == IF e = Undefined \/ e = 0 THEN DefaultEase ELSE e

\* Math.max(1.3, easeFactor + delta): a lower limit and no upper limit
NewEaseFactor(e, q) == Max(MinEase, e + EaseDelta(q))

\* Math.ceil((nextReview - lastReviewed) / one day)
PreviousInterval(it) == Ceil(it.nextReview - it.lastReviewed, HoursPerDay)

\* (faulty variant for C11: the thresholds 4 and 3 are exclusive)
FirstIntervalStrict(q) == IF q > 8 THEN 3 ELSE IF q > 6 THEN 2 ELSE 1
\* the interval of a first review
FirstInterval(q) == IF q >= 8 THEN 3 ELSE IF q >= 6 THEN 2 ELSE 1

\* (faulty variant for C12: the interval grows by the ease factor of the item,
\* not by the updated one)
NextIntervalGrowPriorEase(it, q, e) ==
    IF PreviousInterval(it) = 1 THEN 6
    ELSE Round(PreviousInterval(it) * EaseOrDefault(it.easeFactor), EaseUnit)
\* (faulty variant for C13: a previous interval of one day grows like any other)
NextIntervalGrowAlways(it, q, e) == Round(PreviousInterval(it) * e, EaseUnit)
\* the interval of a later review, e the updated ease factor
NextIntervalGrow(it, q, e) ==
    IF PreviousInterval(it) = 1 THEN 6 ELSE Round(PreviousInterval(it) * e, EaseUnit)
\* (faulty variant for C1: a failed recall does not reset the interval)
NextIntervalNoReset(it, q, e) == NextIntervalGrow(it, q, e)
NextInterval(it, q, e) ==
    IF q < 6 THEN 1 ELSE NextIntervalGrow(it, q, e)

\* item.lastReviewed is truthy: any Date object is, new Date(0) included
HasLastReviewed(it) == it.lastReviewed # Undefined

\* item.nextReview!.getTime() throws a TypeError when nextReview is absent
Throws(it, q0) ==
    /\ HasLastReviewed(it)
    /\ ClampQuality(q0) >= 6
    /\ it.nextReview = Undefined

calculateNextReview(it, q0, clock) ==
    LET q  == ClampQuality(q0)
        e0 == EaseOrDefault(it.easeFactor)
        e  == IF HasLastReviewed(it) THEN NewEaseFactor(e0, q) ELSE e0
        iv == IF HasLastReviewed(it) THEN NextInterval(it, q, e) ELSE FirstInterval(q)
    IN  IF Throws(it, q0)
        THEN [threw |-> TRUE, nextReview |-> Undefined, easeFactor |-> Undefined, interval |-> 0]
        ELSE [threw |-> FALSE, nextReview |-> clock + iv * HoursPerDay,
              easeFactor |-> e, interval |-> iv]

ItemTimes == {h * (HoursPerDay \div 2) : h \in 0..MaxItemHalfDays}
InitEase  == {Undefined, MinEase, 1800, DefaultEase, 2950, MaxEase}

InitItems ==
    [lastReviewed : {Undefined} \cup ItemTimes,
     nextReview   : {Undefined} \cup ItemTimes,
     easeFactor   : InitEase]

NoResult == [threw |-> FALSE, nextReview |-> Undefined, easeFactor |-> Undefined, interval |-> 0]

\* (faulty variant for C31: the call writes the new ease factor into the item)
ScheduleMutating(q) ==
    /\ lastOp # "calculateNextReview"
    /\ calls < MaxCalls
    /\ quality' = q
    /\ result' = calculateNextReview(item, q, now)
    /\ item' = [item EXCEPT !.easeFactor = calculateNextReview(item, q, now).easeFactor]
    /\ calls' = calls + 1
    /\ lastOp' = "calculateNextReview"
    /\ UNCHANGED <<now, dbVars, statVars, bgVars>>
\* a caller reviews the item with quality q and gets its new schedule
Schedule(q) ==
    /\ lastOp # "calculateNextReview"
    /\ calls < MaxCalls
    /\ quality' = q
    /\ result' = calculateNextReview(item, q, now)
    /\ calls' = calls + 1
    /\ lastOp' = "calculateNextReview"
    /\ UNCHANGED <<now, item, dbVars, statVars, bgVars>>

\* the caller calls once more, at the same time and without having kept the
\* schedule the call before returned
ScheduleAgain(q) ==
    /\ lastOp = "calculateNextReview"
    /\ calls < MaxCalls
    /\ quality' = q
    /\ result' = calculateNextReview(item, q, now)
    /\ calls' = calls + 1
    /\ lastOp' = "calculateNextReview"
    /\ UNCHANGED <<now, item, dbVars, statVars, bgVars>>

\* the caller keeps the returned schedule in the item (the review happened now,
\* the item is next due at nextReview, the ease factor is the returned one) and
\* comes back for the next review when the item is due
Reschedule ==
    /\ lastOp = "calculateNextReview"
    /\ ~result.threw
    /\ item' = [lastReviewed |-> now, nextReview |-> result.nextReview,
                easeFactor |-> result.easeFactor]
    /\ now' = Max(now, result.nextReview)
    /\ lastOp' = "reschedule"
    /\ UNCHANGED <<quality, result, calls, dbVars, statVars, bgVars>>

-----------------------------------------------------------------------------
(* database.ts: the 'vocabulary' and 'progress' object stores              *)

(* Bounds of the model *)
NumVocabulary == 2        \* vocabulary items 1..NumVocabulary
NumTasks      == 2        \* updateVocabularyProgress calls that may overlap
MaxReviews    == 2        \* updateVocabularyProgress calls in one behaviour
MaxOverlapped == 2        \* the same when the calls may overlap
MaxClock      == 1        \* the clock advances hour by hour up to MaxClock
MaxLimit      == 1        \* largest limit handed to getVocabularyForReview
MaxSequence   == 7        \* updateVocabularyProgress calls in a row on one word

\* the ids stored in 'vocabulary'; one more wordId has no vocabulary item
VocabularyIds == 1..NumVocabulary
WordIds       == 1..(NumVocabulary + 1)
TaskIds       == 1..NumTasks

\* db.get('progress', wordId) || { wordId, 0, 0, new Date(0), new Date(), 2.5 }
DefaultProgress(w, clock) ==
    [wordId |-> w, correctCount |-> 0, incorrectCount |-> 0,
     lastReviewed |-> 0, nextReview |-> clock, easeFactor |-> DefaultEase]

\* (faulty variant for C20: the stored record is not read back)
GetProgressFresh(store, w, clock) == DefaultProgress(w, clock)
GetProgress(store, w, clock) ==
    IF w \in DOMAIN store THEN store[w] ELSE DefaultProgress(w, clock)

\* db.put('progress', p): insert or replace the record with key p.wordId
PutProgress(store, p) ==
    [w \in (DOMAIN store) \cup {p.wordId} |-> IF w = p.wordId THEN p ELSE store[w]]

\* (faulty variant for C18: the ease factor grows without limit)
CorrectEaseUnclamped(e) == e + 100
\* the correct branch of updateVocabularyProgress
CorrectEase(e) == Min(e + 100, MaxEase)

\* (faulty variant for C16: the days come from the count before the increment)
CorrectDaysPriorCount(c, e) == Round((c - 1) * e, EaseUnit)
CorrectDays(c, e) == Round(c * e, EaseUnit)

\* (faulty variant for C17: the ease factor falls without limit)
IncorrectEaseUnclamped(e) == e - 200
\* the incorrect branch of updateVocabularyProgress
IncorrectEase(e) == Max(e - 200, MinEase)

\* (faulty variant for C19: the next review is counted from the previous review)
UpdatedProgressFromLastReview(p, correct, clock) ==
    IF correct
    THEN LET c == p.correctCount + 1
             e == CorrectEase(p.easeFactor)
         IN  [p EXCEPT !.lastReviewed = clock, !.correctCount = c, !.easeFactor = e,
                       !.nextReview = p.lastReviewed + CorrectDays(c, e) * HoursPerDay]
    ELSE [p EXCEPT !.lastReviewed = clock, !.incorrectCount = p.incorrectCount + 1,
                   !.easeFactor = IncorrectEase(p.easeFactor),
                   !.nextReview = p.lastReviewed + 1]
\* the synchronous part of updateVocabularyProgress between db.get and db.put
UpdatedProgress(p, correct, clock) ==
    IF correct
    THEN LET c == p.correctCount + 1
             e == CorrectEase(p.easeFactor)
         IN  [p EXCEPT !.lastReviewed = clock, !.correctCount = c, !.easeFactor = e,
                       !.nextReview = clock + CorrectDays(c, e) * HoursPerDay]
    ELSE [p EXCEPT !.lastReviewed = clock, !.incorrectCount = p.incorrectCount + 1,
                   !.easeFactor = IncorrectEase(p.easeFactor),
                   !.nextReview = clock + 1]

\* no getVocabularyForReview call has just returned
NoDue == [threw |-> FALSE, items |-> <<>>, keys |-> <<>>, limit |-> 0]

IdleTask == [pc |-> "idle", wordId |-> 0, correct |-> FALSE,
             progress |-> DefaultProgress(0, 0)]

\* calls begun so far: the completed ones and the ones in flight
ReviewsBegun ==
    LET RECURSIVE Sum(_)
        Sum(S) == IF S = {} THEN 0
                  ELSE LET w == CHOOSE x \in S : TRUE
                       IN  reviewed[w].correct + reviewed[w].incorrect + Sum(S \ {w})
    IN  Sum(WordIds) + Cardinality({t \in TaskIds : tasks[t].pc # "idle"})

\* one updateVocabularyProgress(w, c) call from start to end, as a single actor runs it
RunUpdate(w, c) ==
    /\ \A t \in TaskIds : tasks[t].pc = "idle"
    /\ progress' = PutProgress(progress, UpdatedProgress(GetProgress(progress, w, now), c, now))
    /\ reviewed' = [reviewed EXCEPT ![w] =
           IF c THEN [@ EXCEPT !.correct = @ + 1] ELSE [@ EXCEPT !.incorrect = @ + 1]]
    /\ due' = NoDue
    /\ lastOp' = "updateVocabularyProgress"
    /\ UNCHANGED <<now, tasks, schedVars, statVars, bgVars>>

\* a review of any word, a few of them in one behaviour
UpdateVocabularyProgress(w, c) ==
    /\ ReviewsBegun < MaxReviews
    /\ RunUpdate(w, c)

\* one more review of the first word, many of them in one behaviour
UpdateAgain(c) ==
    /\ ReviewsBegun < MaxSequence
    /\ RunUpdate(1, c)

\* (faulty variant for C32: the boolean outcome is graded 4 or 2 and the
\* schedule of the record comes from calculateNextReview)
ProcessReviewResponseGraded(w, c) ==
    /\ \A t \in TaskIds : tasks[t].pc = "idle"
    /\ ReviewsBegun < MaxReviews
    /\ LET q   == IF c THEN 8 ELSE 4
           old == GetProgress(progress, w, now)
           new == UpdatedProgress(old, c, now)
           sch == calculateNextReview([lastReviewed |-> old.lastReviewed,
                                       nextReview   |-> old.nextReview,
                                       easeFactor   |-> old.easeFactor], q, now)
       IN  progress' = PutProgress(progress,
                           [new EXCEPT !.easeFactor = sch.easeFactor,
                                       !.nextReview = sch.nextReview])
    /\ reviewed' = [reviewed EXCEPT ![w] =
           IF c THEN [@ EXCEPT !.correct = @ + 1] ELSE [@ EXCEPT !.incorrect = @ + 1]]
    /\ due' = NoDue
    /\ lastOp' = "processReviewResponse"
    /\ UNCHANGED <<now, tasks, schedVars, statVars, bgVars>>
\* processReviewResponse(w, c): the quality 4 or 2 it derives from the outcome
\* is not used; the call is updateVocabularyProgress(w, c), an error rethrown
ProcessReviewResponse(w, c) ==
    /\ \A t \in TaskIds : tasks[t].pc = "idle"
    /\ ReviewsBegun < MaxReviews
    /\ LET q == IF c THEN 8 ELSE 4
       IN  progress' = PutProgress(progress,
                           UpdatedProgress(GetProgress(progress, w, now), c, now))
    /\ reviewed' = [reviewed EXCEPT ![w] =
           IF c THEN [@ EXCEPT !.correct = @ + 1] ELSE [@ EXCEPT !.incorrect = @ + 1]]
    /\ due' = NoDue
    /\ lastOp' = "processReviewResponse"
    /\ UNCHANGED <<now, tasks, schedVars, statVars, bgVars>>

(* updateVocabularyProgress step by step: db.get and db.put are awaits at
   which another call may run *)

\* updateVocabularyProgress(w, c) is called; it first awaits initDB()
UpdateBegin(t, w, c) ==
    /\ tasks[t].pc = "idle"
    /\ ReviewsBegun < MaxOverlapped
    /\ tasks' = [tasks EXCEPT ![t] = [IdleTask EXCEPT !.pc = "get", !.wordId = w, !.correct = c]]
    /\ due' = NoDue
    /\ lastOp' = "updateBegin"
    /\ UNCHANGED <<now, progress, reviewed, schedVars, statVars, bgVars>>

\* db.get resolves; the call updates its copy and issues db.put
UpdateGet(t) ==
    /\ tasks[t].pc = "get"
    /\ tasks' = [tasks EXCEPT ![t].pc = "put",
                              ![t].progress = UpdatedProgress(
                                  GetProgress(progress, tasks[t].wordId, now),
                                  tasks[t].correct, now)]
    /\ due' = NoDue
    /\ lastOp' = "updateGet"
    /\ UNCHANGED <<now, progress, reviewed, schedVars, statVars, bgVars>>

\* db.put takes effect and the call returns
UpdatePut(t) ==
    /\ tasks[t].pc = "put"
    /\ progress' = PutProgress(progress, tasks[t].progress)
    /\ reviewed' = [reviewed EXCEPT ![tasks[t].wordId] =
           IF tasks[t].correct THEN [@ EXCEPT !.correct = @ + 1]
                               ELSE [@ EXCEPT !.incorrect = @ + 1]]
    /\ tasks' = [tasks EXCEPT ![t] = IdleTask]
    /\ due' = NoDue
    /\ lastOp' = "updateVocabularyProgress"
    /\ UNCHANGED <<now, schedVars, statVars, bgVars>>

\* (faulty variant for C10: equal keys in descending order of primary key)
IndexBeforeTiesReversed(store, a, b) ==
    \/ store[a].nextReview < store[b].nextReview
    \/ store[a].nextReview = store[b].nextReview /\ a > b
\* the order of the 'nextReview' index: by key, equal keys by primary key
IndexBefore(store, a, b) ==
    \/ store[a].nextReview < store[b].nextReview
    \/ store[a].nextReview = store[b].nextReview /\ a < b

\* the keys S of the index in index order
RECURSIVE IndexOrder(_, _)
IndexOrder(store, S) ==
    IF S = {} THEN <<>>
    ELSE LET m == CHOOSE x \in S : \A y \in S \ {x} : IndexBefore(store, x, y)
         IN  <<m>> \o IndexOrder(store, S \ {m})

\* (faulty variant for C9: the query has no key range)
InRangeAll(store, w, clock) == TRUE
\* IDBKeyRange.upperBound(now): the records with nextReview <= now
InRange(store, w, clock) == store[w].nextReview <= clock

\* (faulty variant for C37: the last count records)
TakeLast(s, count) ==
    IF count = 0 \/ count >= Len(s) THEN s ELSE SubSeq(s, Len(s) - count + 1, Len(s))
\* getAllFromIndex(..., count): the first count records, all of them when count is 0
Take(s, count) ==
    IF count = 0 \/ count >= Len(s) THEN s ELSE SubSeq(s, 1, count)

\* vocabularyItems.filter(Boolean): db.get('vocabulary', id) is undefined for a missing id
RECURSIVE FilterBoolean(_)
FilterBoolean(s) ==
    IF s = <<>> THEN <<>>
    ELSE IF Head(s) \in VocabularyIds THEN <<Head(s)>> \o FilterBoolean(Tail(s))
         ELSE FilterBoolean(Tail(s))

\* (faulty variant for C38: a vocabulary item without a record is due at once)
DueItemsWithUnreviewed(store, limit, clock) ==
    LET full == [w \in (DOMAIN store) \cup VocabularyIds |->
                    IF w \in DOMAIN store THEN store[w] ELSE DefaultProgress(w, clock)]
    IN  Take(IndexOrder(full, {w \in DOMAIN full : InRange(full, w, clock)}), limit)
\* the records the query of the 'nextReview' index gives
DueItems(store, limit, clock) ==
    Take(IndexOrder(store, {w \in DOMAIN store : InRange(store, w, clock)}), limit)

\* getVocabularyForReview(limit); a negative count makes getAllFromIndex throw
GetVocabularyForReview(limit) ==
    /\ due' = IF limit < 0
              THEN [NoDue EXCEPT !.threw = TRUE, !.limit = limit]
              ELSE [threw |-> FALSE, limit |-> limit,
                    keys  |-> DueItems(progress, limit, now),
                    items |-> FilterBoolean(DueItems(progress, limit, now))]
    /\ lastOp' = "getVocabularyForReview"
    /\ UNCHANGED <<now, progress, tasks, reviewed, schedVars, statVars, bgVars>>

\* getDueReviews(limit): getVocabularyForReview(limit), an error caught and
\* answered with an empty list
GetDueReviews(limit) ==
    /\ due' = [threw |-> FALSE, limit |-> limit,
               keys  |-> IF limit < 0 THEN <<>> ELSE DueItems(progress, limit, now),
               items |-> IF limit < 0 THEN <<>>
                         ELSE FilterBoolean(DueItems(progress, limit, now))]
    /\ lastOp' = "getDueReviews"
    /\ UNCHANGED <<now, progress, tasks, reviewed, schedVars, statVars, bgVars>>

\* time passes: an hour, or up to (one hour before) the due time of a stored record
ClockTargets ==
    (IF now < MaxClock THEN {now + 1} ELSE {})
    \cup {progress[w].nextReview : w \in DOMAIN progress}
    \cup {progress[w].nextReview - 1 : w \in DOMAIN progress}

TickDb(t) ==
    /\ t > now
    /\ now' = t
    /\ due' = NoDue
    /\ lastOp' = "tick"
    /\ UNCHANGED <<progress, tasks, reviewed, schedVars, statVars, bgVars>>

\* time passes until the stored record of word w is due
TickToDue(w) ==
    /\ w \in DOMAIN progress
    /\ TickDb(progress[w].nextReview)

-----------------------------------------------------------------------------
(* progressAnalytics.ts: learning statistics kept in the 'settings' store  *)

TotalWords   == 1000
HistoryLimit == 30

(* Bounds of the model *)
NumProcs       == 2       \* updateLearningStats calls that may overlap
MaxStatReviews == 2       \* updateLearningStats calls in one behaviour, one at a time
MaxStatCalls   == 2       \* updateLearningStats calls in one behaviour, overlapping
MaxDaysAhead   == 2       \* the clock runs over this many days after the first
MaxDaysAsked   == 1       \* largest number of days handed to getDailyProgress
MaxReadCalls   == 2       \* updateLearningStats calls in one behaviour with reads between
MaxFaultCalls  == 2       \* updateLearningStats calls in one behaviour with store failures

ProcIds == 1..NumProcs

\* the hours of the day (UTC) at which the model looks at the clock
DayHours == {0, 12, 23}

\* setDate(getDate() - 1) keeps the local wall-clock time of the previous local
\* date; its UTC instant is 24 hours back, shifted by the change of the local
\* UTC offset between the two (0, or an hour at a daylight-saving transition)
TzShifts == {0 - 1, 0, 1}

\* the keys read by getLearningStats and written by updateLearningStats, in order
StatKeys == <<"learnedWordsCount", "reviewsToday", "reviewsTotal", "correctAnswers",
              "incorrectAnswers", "streak", "lastReviewDate">>

\* an empty 'settings' store: getSetting gives null, read as 0 / null / []
NoSettings ==
    [learnedWordsCount |-> 0, reviewsToday |-> 0, reviewsTotal |-> 0,
     correctAnswers |-> 0, incorrectAnswers |-> 0, streak |-> 0,
     lastReviewDate |-> Undefined, progressHistory |-> <<>>]

\* toISOString().split('T')[0]: the UTC calendar date of a timestamp
DayOf(t) == t \div HoursPerDay

\* isNewDay: no last review, or its date is not today's
IsNewDay(stats, clock) ==
    \/ stats.lastReviewDate = Undefined
    \/ DayOf(stats.lastReviewDate) # DayOf(clock)

\* yesterdayStr
YesterdayStr(clock, shift) == DayOf(clock - HoursPerDay + shift)

\* (faulty variant for C24: the count of the day is never reset)
NewReviewsTodayNoReset(stats, clock) == stats.reviewsToday + 1
NewReviewsToday(stats, clock) ==
    IF IsNewDay(stats, clock) THEN 1 ELSE stats.reviewsToday + 1

NewStreak(stats, clock, shift) ==
    IF IsNewDay(stats, clock)
    THEN IF /\ stats.lastReviewDate # Undefined
            /\ DayOf(stats.lastReviewDate) = YesterdayStr(clock, shift)
         THEN stats.streak + 1
         ELSE IF \/ stats.lastReviewDate = Undefined
                 \/ DayOf(stats.lastReviewDate) # DayOf(clock)
              THEN 1
              ELSE stats.streak
    ELSE stats.streak

\* (faulty variant for C26: the count is not held at the number of words)
LearnedWordsUncapped(correctAnswers) == correctAnswers \div 3
\* Math.min(stats.totalWords, Math.floor(correctAnswers / 3))
LearnedWords(correctAnswers) == Min(TotalWords, correctAnswers \div 3)

\* (faulty variant for C25: an incorrect answer is counted as a correct one too)
FoldStatsAllCorrect(stats, clock, shift, correct) ==
    LET correctAnswers   == stats.correctAnswers + 1
        incorrectAnswers == IF correct THEN stats.incorrectAnswers ELSE stats.incorrectAnswers + 1
    IN  [learnedWordsCount |-> LearnedWords(correctAnswers),
         reviewsToday      |-> NewReviewsToday(stats, clock),
         reviewsTotal      |-> stats.reviewsTotal + 1,
         correctAnswers    |-> correctAnswers,
         incorrectAnswers  |-> incorrectAnswers,
         streak            |-> NewStreak(stats, clock, shift),
         lastReviewDate    |-> clock]
\* the values updateLearningStats computes from the statistics it has read
FoldStats(stats, clock, shift, correct) ==
    LET correctAnswers   == IF correct THEN stats.correctAnswers + 1 ELSE stats.correctAnswers
        incorrectAnswers == IF correct THEN stats.incorrectAnswers ELSE stats.incorrectAnswers + 1
    IN  [learnedWordsCount |-> LearnedWords(correctAnswers),
         reviewsToday      |-> NewReviewsToday(stats, clock),
         reviewsTotal      |-> stats.reviewsTotal + 1,
         correctAnswers    |-> correctAnswers,
         incorrectAnswers  |-> incorrectAnswers,
         streak            |-> NewStreak(stats, clock, shift),
         lastReviewDate    |-> clock]

\* progressHistory.find(entry => entry.date === date): index of the first match, 0 if none
FindEntry(h, date) ==
    IF \E i \in 1..Len(h) : h[i].date = date
    THEN CHOOSE i \in 1..Len(h) : h[i].date = date /\ \A j \in 1..(i - 1) : h[j].date # date
    ELSE 0

\* (faulty variant for C27: every review pushes a new entry)
UpsertAlwaysPush(h, date, correct) ==
    Append(h, [date |-> date, reviewCount |-> 1, correctCount |-> IF correct THEN 1 ELSE 0])
\* (faulty variant for C36: an entry counts the correct reviews only)
UpsertCountCorrect(h, date, correct) ==
    LET i == FindEntry(h, date)
        n == IF correct THEN 1 ELSE 0
    IN  IF i > 0
        THEN [h EXCEPT ![i] = [@ EXCEPT !.reviewCount = @ + n, !.correctCount = @ + n]]
        ELSE Append(h, [date |-> date, reviewCount |-> n, correctCount |-> n])
\* the update of todayEntry, or the push of a new entry
Upsert(h, date, correct) ==
    LET i == FindEntry(h, date)
    IN  IF i > 0
        THEN [h EXCEPT ![i] = [@ EXCEPT !.reviewCount = @ + 1,
                                        !.correctCount = IF correct THEN @ + 1 ELSE @]]
        ELSE Append(h, [date |-> date, reviewCount |-> 1,
                        correctCount |-> IF correct THEN 1 ELSE 0])

\* sort((a, b) => b.date.localeCompare(a.date)): stable, descending by date
\* (an entry goes after the entries of a later date and the earlier entries of its date)
RECURSIVE InsertDescending(_, _, _)
InsertDescending(s, e, i) ==
    IF i = 0 \/ s[i].date >= e.date
    THEN SubSeq(s, 1, i) \o <<e>> \o SubSeq(s, i + 1, Len(s))
    ELSE InsertDescending(s, e, i - 1)

RECURSIVE SortDescending(_)
SortDescending(s) ==
    IF Len(s) <= 1 THEN s
    ELSE LET front == SortDescending(SubSeq(s, 1, Len(s) - 1))
         IN  InsertDescending(front, s[Len(s)], Len(front))

\* (faulty variant for C8: the history is not cut)
SliceAll(s) == s
\* slice(0, 30)
SliceRecent(s) == IF Len(s) <= HistoryLimit THEN s ELSE SubSeq(s, 1, HistoryLimit)

\* the history updateDailyProgress saves
UpdatedHistory(h, date, correct) == SliceRecent(SortDescending(Upsert(h, date, correct)))

\* the store after one whole updateLearningStats call that nothing interleaves with
AfterUpdate(st, clock, shift, correct) ==
    LET out == FoldStats(st, clock, shift, correct)
    IN  [learnedWordsCount |-> out.learnedWordsCount,
         reviewsToday      |-> out.reviewsToday,
         reviewsTotal      |-> out.reviewsTotal,
         correctAnswers    |-> out.correctAnswers,
         incorrectAnswers  |-> out.incorrectAnswers,
         streak            |-> out.streak,
         lastReviewDate    |-> out.lastReviewDate,
         progressHistory   |-> UpdatedHistory(st.progressHistory, DayOf(clock), correct)]

\* what getLearningStats has before its first read
NoStats ==
    [learnedWordsCount |-> 0, reviewsToday |-> 0, reviewsTotal |-> 0,
     correctAnswers |-> 0, incorrectAnswers |-> 0, streak |-> 0,
     lastReviewDate |-> Undefined]

\* the seven statistics as getLearningStats reads them from the store
StatsOf(st) == [k \in DOMAIN NoStats |-> st[k]]

\* no call has returned yet
NoReturn == [op |-> "none", arg |-> 0, threw |-> FALSE, failed |-> 0,
             stats |-> NoStats, history |-> <<>>]

IdleProc == [pc |-> "idle", idx |-> 0, correct |-> FALSE,
             stats |-> NoStats, out |-> NoStats, history |-> <<>>]

Record(rec, clock, correct) ==
    [rec EXCEPT !.calls = @ + 1,
                !.last = correct,
                !.correct = IF correct THEN @ + 1 ELSE @,
                !.days = @ \cup {DayOf(clock)}]

StatReviewsBegun == recorded.calls + Cardinality({p \in ProcIds : procs[p].pc # "idle"})

\* one updateLearningStats(correct) call from start to end, as a single actor runs it
UpdateLearningStats(correct, shift) ==
    /\ \A p \in ProcIds : procs[p].pc = "idle"
    /\ StatReviewsBegun < MaxStatReviews
    /\ settings' = AfterUpdate(settings, now, shift, correct)
    /\ before' = settings
    /\ recorded' = Record(recorded, now, correct)
    /\ returned' = [NoReturn EXCEPT !.op = "updateLearningStats",
                                    !.stats = FoldStats(StatsOf(settings), now, shift, correct)]
    /\ lastOp' = "updateLearningStats"
    /\ UNCHANGED <<now, procs, schedVars, dbVars, bgVars>>

(* Store failures.  One store access of a call may fail (its promise
   rejects).  The accesses of updateLearningStats are numbered in the order
   the call makes them: the seven reads of getLearningStats, the seven writes,
   the read and the write of updateDailyProgress.  0 stands for no failure. *)
ReadFailures      == 1..Len(StatKeys)
WriteFailures     == (Len(StatKeys) + 1)..(2 * Len(StatKeys))
DailyReadFailure  == 2 * Len(StatKeys) + 1
DailyWriteFailure == 2 * Len(StatKeys) + 2
UpdateFailures    == 1..DailyWriteFailure

KeyIndex(k) == CHOOSE i \in 1..Len(StatKeys) : StatKeys[i] = k

\* what getLearningStats returns when access f fails: its catch gives the defaults
StatsReadOrDefaults(st, f) == IF f \in ReadFailures THEN NoStats ELSE StatsOf(st)

\* one updateLearningStats(correct) call in which store access f fails: a failed
\* read is caught by getLearningStats, a failed write is rethrown after the
\* writes before it took effect, a failure in updateDailyProgress is caught there
UpdateLearningStatsFailing(correct, shift, f) ==
    /\ \A p \in ProcIds : procs[p].pc = "idle"
    /\ StatReviewsBegun < MaxFaultCalls
    /\ LET out     == FoldStats(StatsReadOrDefaults(settings, f), now, shift, correct)
           written == IF f \in WriteFailures THEN f - Len(StatKeys) - 1 ELSE Len(StatKeys)
           history == IF f \in WriteFailures \/ f >= DailyReadFailure
                      THEN settings.progressHistory
                      ELSE UpdatedHistory(settings.progressHistory, DayOf(now), correct)
       IN  /\ settings' = [k \in DOMAIN settings |->
                              IF k = "progressHistory" THEN history
                              ELSE IF KeyIndex(k) <= written THEN out[k] ELSE settings[k]]
           /\ returned' = [NoReturn EXCEPT !.op = "updateLearningStats",
                                           !.failed = f,
                                           !.threw = f \in WriteFailures,
                                           !.stats = IF f \in WriteFailures THEN NoStats ELSE out]
    /\ before' = settings
    /\ recorded' = Record(recorded, now, correct)
    /\ lastOp' = "updateLearningStats"
    /\ UNCHANGED <<now, procs, schedVars, dbVars, bgVars>>

\* (faulty variant for C23: reading the statistics resets the count of the day)
GetLearningStatsResetting(f) ==
    /\ \A p \in ProcIds : procs[p].pc = "idle"
    /\ returned' = [NoReturn EXCEPT !.op = "getLearningStats", !.failed = f,
                                    !.stats = StatsReadOrDefaults(settings, f)]
    /\ settings' = [settings EXCEPT !.reviewsToday = 0]
    /\ lastOp' = "getLearningStats"
    /\ UNCHANGED <<now, procs, recorded, before, schedVars, dbVars, bgVars>>
\* one getLearningStats call in which store access f fails (0: none does)
GetLearningStats(f) ==
    /\ \A p \in ProcIds : procs[p].pc = "idle"
    /\ returned' = [NoReturn EXCEPT !.op = "getLearningStats", !.failed = f,
                                    !.stats = StatsReadOrDefaults(settings, f)]
    /\ lastOp' = "getLearningStats"
    /\ UNCHANGED <<now, settings, procs, recorded, before, schedVars, dbVars, bgVars>>

\* (faulty variant for C28: the slice keeps the end of the sorted history)
SliceLast(s, n) == SubSeq(s, Len(s) - Min(n, Len(s)) + 1, Len(s))
\* slice(0, n) for n >= 0
SliceFirst(s, n) == SubSeq(s, 1, Min(n, Len(s)))

\* one getDailyProgress(days) call; a failed read is caught and gives []
GetDailyProgress(days, fails) ==
    /\ \A p \in ProcIds : procs[p].pc = "idle"
    /\ returned' = [NoReturn EXCEPT !.op = "getDailyProgress", !.arg = days,
                                    !.failed = IF fails THEN 1 ELSE 0,
                                    !.history = IF fails THEN <<>>
                                                ELSE SliceFirst(SortDescending(settings.progressHistory),
                                                                days)]
    /\ lastOp' = "getDailyProgress"
    /\ UNCHANGED <<now, settings, procs, recorded, before, schedVars, dbVars, bgVars>>

\* time passes: to hour h of the day d days on
TickStats(d, h) ==
    /\ \A p \in ProcIds : procs[p].pc = "idle"
    /\ (DayOf(now) + d) * HoursPerDay + h > now
    /\ DayOf(now) + d <= recorded.start + MaxDaysAhead
    /\ now' = (DayOf(now) + d) * HoursPerDay + h
    /\ lastOp' = "tick"
    /\ UNCHANGED <<schedVars, dbVars, statVars, bgVars>>

(* updateLearningStats step by step: every getSetting / updateSetting is an
   await at which another call may run *)

StatsBegin(p, correct) ==
    /\ procs[p].pc = "idle"
    /\ StatReviewsBegun < MaxStatCalls
    /\ procs' = [procs EXCEPT ![p] = [IdleProc EXCEPT !.pc = "read", !.idx = 1,
                                                      !.correct = correct]]
    /\ lastOp' = "statsBegin"
    /\ UNCHANGED <<now, settings, recorded, before, returned, schedVars, dbVars, bgVars>>

\* one getSetting of getLearningStats resolves; after the last one the new
\* values are computed from the statistics read
StatsRead(p, shift) ==
    /\ procs[p].pc = "read"
    /\ LET k    == StatKeys[procs[p].idx]
           read == [procs[p].stats EXCEPT ![k] = settings[k]]
       IN  procs' = [procs EXCEPT ![p] =
               IF procs[p].idx < Len(StatKeys)
               THEN [@ EXCEPT !.stats = read, !.idx = @ + 1]
               ELSE [@ EXCEPT !.pc = "write", !.idx = 1, !.stats = read,
                              !.out = FoldStats(read, now, shift, procs[p].correct)]]
    /\ lastOp' = "statsRead"
    /\ UNCHANGED <<now, settings, recorded, before, returned, schedVars, dbVars, bgVars>>

\* one updateSetting of updateLearningStats takes effect
StatsWrite(p) ==
    /\ procs[p].pc = "write"
    /\ LET k == StatKeys[procs[p].idx]
       IN  settings' = [settings EXCEPT ![k] = procs[p].out[k]]
    /\ procs' = [procs EXCEPT ![p] =
           IF procs[p].idx < Len(StatKeys)
           THEN [@ EXCEPT !.idx = @ + 1]
           ELSE [@ EXCEPT !.pc = "dailyRead", !.idx = 0]]
    /\ lastOp' = "statsWrite"
    /\ UNCHANGED <<now, recorded, before, returned, schedVars, dbVars, bgVars>>

\* updateDailyProgress: getSetting('progressHistory') resolves, the entry of
\* today is updated in the copy, the copy is sorted and cut
DailyRead(p) ==
    /\ procs[p].pc = "dailyRead"
    /\ procs' = [procs EXCEPT ![p].pc = "dailyWrite",
                              ![p].history = UpdatedHistory(settings.progressHistory,
                                                 DayOf(procs[p].out.lastReviewDate),
                                                 procs[p].correct)]
    /\ lastOp' = "dailyRead"
    /\ UNCHANGED <<now, settings, recorded, before, returned, schedVars, dbVars, bgVars>>

\* updateDailyProgress: updateSetting('progressHistory') takes effect; the call returns
DailyWrite(p) ==
    /\ procs[p].pc = "dailyWrite"
    /\ settings' = [settings EXCEPT !.progressHistory = procs[p].history]
    /\ recorded' = Record(recorded, procs[p].out.lastReviewDate, procs[p].correct)
    /\ procs' = [procs EXCEPT ![p] = IdleProc]
    /\ returned' = [NoReturn EXCEPT !.op = "updateLearningStats", !.stats = procs[p].out]
    /\ lastOp' = "updateLearningStats"
    /\ UNCHANGED <<now, before, schedVars, dbVars, bgVars>>

-----------------------------------------------------------------------------
(* background.ts: the browsing-pause check of the service worker.  Its     *)
(* timestamps are whole minutes since the worker started.                  *)

AlarmDelay   == 1         \* delayInMinutes of the checkBrowsingPause alarm
AlarmPeriod  == 5         \* periodInMinutes of the checkBrowsingPause alarm
PauseMinimum == 2         \* inactiveTime > 2 * 60 * 1000
PauseMaximum == 10        \* inactiveTime < 10 * 60 * 1000

(* Bounds of the model *)
MaxMinutes == 16          \* the worker is followed over this many minutes

NoNotification == [checked |-> FALSE, created |-> FALSE, inactiveTime |-> 0]

\* a minute passes; an alarm that is due fires before the next one does
BgTick ==
    /\ minute < MaxMinutes
    /\ minute < nextAlarm
    /\ minute' = minute + 1
    /\ lastOp' = "tick"
    /\ UNCHANGED <<now, lastActiveTime, lastActivity, nextAlarm, notificationsEnabled,
                   notification, schedVars, dbVars, statVars>>

\* chrome.tabs.onUpdated / onActivated: the user is active
TabActivity ==
    /\ lastActiveTime' = minute
    /\ lastActivity' = minute
    /\ lastOp' = "tabActivity"
    /\ UNCHANGED <<now, minute, nextAlarm, notificationsEnabled, notification,
                   schedVars, dbVars, statVars>>

\* inactiveTime > 2 min && inactiveTime < 10 min, then the setting is read
CreatesNotification(inactiveTime, enabled) ==
    /\ inactiveTime > PauseMinimum
    /\ inactiveTime < PauseMaximum
    /\ enabled

\* the checkBrowsingPause alarm fires: checkBrowsingActivity runs
CheckBrowsingActivity ==
    /\ minute = nextAlarm
    /\ LET inactiveTime == minute - lastActiveTime
       IN  notification' = [checked |-> TRUE,
                            created |-> CreatesNotification(inactiveTime, notificationsEnabled),
                            inactiveTime |-> inactiveTime]
    /\ lastActiveTime' = minute
    /\ nextAlarm' = nextAlarm + AlarmPeriod
    /\ lastOp' = "checkBrowsingActivity"
    /\ UNCHANGED <<now, minute, lastActivity, notificationsEnabled,
                   schedVars, dbVars, statVars>>

\* the 'updateSetting' message: the user switches the notifications on or off
SetNotificationsEnabled(value) ==
    /\ value # notificationsEnabled
    /\ notificationsEnabled' = value
    /\ lastOp' = "updateSetting"
    /\ UNCHANGED <<now, minute, lastActiveTime, lastActivity, nextAlarm, notification,
                   schedVars, dbVars, statVars>>

-----------------------------------------------------------------------------
(* Initial states and specifications                                       *)

\* the service worker has started: lastActiveTime = Date.now(), the alarm is
\* set, loadVocabularyData has stored notificationsEnabled = true
BgIdle ==
    /\ minute = 0
    /\ lastActiveTime = 0
    /\ lastActivity = 0
    /\ nextAlarm = AlarmDelay
    /\ notificationsEnabled = TRUE
    /\ notification = NoNotification

\* the store after one correct review at noon of each of the days 0..k-1,
\* k <= HistoryLimit: k times AfterUpdate( _, (i - 1) * 24 + 12, 0, TRUE)
SeedSettings(k) ==
    IF k = 0 THEN NoSettings
    ELSE [learnedWordsCount |-> Min(TotalWords, k \div 3),
          reviewsToday      |-> 1,
          reviewsTotal      |-> k,
          correctAnswers    |-> k,
          incorrectAnswers  |-> 0,
          streak            |-> k,
          lastReviewDate    |-> (k - 1) * HoursPerDay + 12,
          progressHistory   |-> [i \in 1..k |-> [date |-> k - i, reviewCount |-> 1,
                                                  correctCount |-> 1]]]

\* the store after n correct reviews at noon of day 0
ManyCorrect(n) ==
    [learnedWordsCount |-> LearnedWords(n),
     reviewsToday      |-> n,
     reviewsTotal      |-> n,
     correctAnswers    |-> n,
     incorrectAnswers  |-> 0,
     streak            |-> 1,
     lastReviewDate    |-> 12,
     progressHistory   |-> <<[date |-> 0, reviewCount |-> n, correctCount |-> n]>>]

\* correctAnswers one short of the first count whose third exceeds TotalWords
SeedCorrect == 3 * TotalWords + 2

\* the numbers of days already reviewed when a behaviour starts
SeedDays == {0, HistoryLimit}

SchedIdle ==
    /\ item = [lastReviewed |-> Undefined, nextReview |-> Undefined, easeFactor |-> Undefined]
    /\ quality = 0
    /\ result = NoResult
    /\ calls = 0

DbIdle ==
    /\ progress = [w \in {} |-> DefaultProgress(0, 0)]
    /\ tasks = [t \in TaskIds |-> IdleTask]
    /\ reviewed = [w \in WordIds |-> [correct |-> 0, incorrect |-> 0]]
    /\ due = NoDue

StatsIdle(k) ==
    /\ settings = SeedSettings(k)
    /\ procs = [p \in ProcIds |-> IdleProc]
    /\ recorded = [calls |-> 0, correct |-> 0, days |-> 0..(k - 1), start |-> Max(k - 1, 0),
                   last |-> FALSE]
    /\ before = SeedSettings(k)
    /\ returned = NoReturn

\* calculateNextReview on arbitrary items and qualities
InitSched ==
    /\ now = MaxItemHalfDays * (HoursPerDay \div 2)
    /\ lastOp = "init"
    /\ item \in InitItems
    /\ quality = 0
    /\ result = NoResult
    /\ calls = 0
    /\ DbIdle
    /\ StatsIdle(0)
    /\ BgIdle

NextSched ==
    \/ \E q \in Qualities : Schedule(q)
    \/ Reschedule

SpecSched == InitSched /\ [][NextSched]_vars

\* calculateNextReview called again on what it was just called on
NextSchedPure ==
    \/ \E q \in Qualities : Schedule(q)
    \/ \E q \in Qualities : ScheduleAgain(q)
    \/ Reschedule

SpecSchedPure == InitSched /\ [][NextSchedPure]_vars

\* both update paths side by side: boolean outcomes recorded in the store,
\* graded reviews of an item never reviewed or reviewed a day before it was due
BothItems ==
    {[lastReviewed |-> Undefined, nextReview |-> Undefined, easeFactor |-> Undefined],
     [lastReviewed |-> 0, nextReview |-> HoursPerDay, easeFactor |-> DefaultEase]}

InitBoth ==
    /\ now = MaxItemHalfDays * (HoursPerDay \div 2)
    /\ lastOp = "init"
    /\ item \in BothItems
    /\ quality = 0
    /\ result = NoResult
    /\ calls = 0
    /\ DbIdle
    /\ StatsIdle(0)
    /\ BgIdle

NextBoth ==
    \/ \E w \in WordIds, c \in BOOLEAN : ProcessReviewResponse(w, c)
    \/ \E q \in Qualities : Schedule(q)

SpecBoth == InitBoth /\ [][NextBoth]_vars

\* the progress store, one updateVocabularyProgress call at a time
InitDb ==
    /\ now = 0
    /\ lastOp = "init"
    /\ SchedIdle
    /\ DbIdle
    /\ StatsIdle(0)
    /\ BgIdle

NextDb ==
    \/ \E w \in WordIds, c \in BOOLEAN : UpdateVocabularyProgress(w, c)
    \/ \E limit \in (0 - 1)..MaxLimit : GetVocabularyForReview(limit)
    \/ \E limit \in (0 - 1)..MaxLimit : GetDueReviews(limit)
    \/ \E t \in ClockTargets : TickDb(t)

SpecDb == InitDb /\ [][NextDb]_vars

\* the review queue: reviews, the passing of time and queries of the due items
NextQueue ==
    \/ \E w \in WordIds, c \in BOOLEAN : UpdateVocabularyProgress(w, c)
    \/ \E limit \in 0..MaxLimit : GetVocabularyForReview(limit)
    \/ \E t \in ClockTargets : TickDb(t)

SpecQueue == InitDb /\ [][NextQueue]_vars

\* the progress store with overlapping updateVocabularyProgress calls
NextDbConc ==
    \/ \E t \in TaskIds, w \in WordIds, c \in BOOLEAN : UpdateBegin(t, w, c)
    \/ \E t \in TaskIds : UpdateGet(t)
    \/ \E t \in TaskIds : UpdatePut(t)
    \/ \E t \in ClockTargets : TickDb(t)

SpecDbConc == InitDb /\ [][NextDbConc]_vars

\* one word reviewed again and again, each time at once or when it is due
NextDbSeq ==
    \/ \E c \in BOOLEAN : UpdateAgain(c)
    \/ TickToDue(1)

SpecDbSeq == InitDb /\ [][NextDbSeq]_vars

\* the statistics, one updateLearningStats call at a time
InitStats ==
    \E k \in SeedDays :
        /\ now = IF k = 0 THEN 0 ELSE (k - 1) * HoursPerDay + 12
        /\ lastOp = "init"
        /\ SchedIdle
        /\ DbIdle
        /\ StatsIdle(k)
        /\ BgIdle

NextStats ==
    \/ \E c \in BOOLEAN, s \in TzShifts : UpdateLearningStats(c, s)
    \/ \E d \in 0..MaxDaysAhead, h \in DayHours : TickStats(d, h)

SpecStats == InitStats /\ [][NextStats]_vars

\* the statistics read back between the updates, from an empty store and
\* from a store that holds many correct answers
InitStatsRead ==
    /\ now = 12
    /\ lastOp = "init"
    /\ SchedIdle
    /\ DbIdle
    /\ BgIdle
    /\ \/ StatsIdle(0)
       \/ /\ settings = ManyCorrect(SeedCorrect)
          /\ procs = [p \in ProcIds |-> IdleProc]
          /\ recorded = [calls |-> 0, correct |-> 0, days |-> {0}, start |-> 0, last |-> FALSE]
          /\ before = ManyCorrect(SeedCorrect)
          /\ returned = NoReturn

NextStatsRead ==
    \/ \E c \in BOOLEAN, s \in TzShifts : StatReviewsBegun < MaxReadCalls /\ UpdateLearningStats(c, s)
    \/ GetLearningStats(0)
    \/ \E days \in 0..MaxDaysAsked : GetDailyProgress(days, FALSE)
    \/ TickStats(1, 12)

SpecStatsRead == InitStatsRead /\ [][NextStatsRead]_vars

\* the statistics when store accesses may fail
NextStatsFault ==
    \/ \E c \in BOOLEAN, s \in TzShifts, f \in UpdateFailures :
           UpdateLearningStatsFailing(c, s, f)
    \/ \E f \in {0} \cup ReadFailures : GetLearningStats(f)
    \/ \E days \in 0..MaxDaysAsked, fails \in BOOLEAN : GetDailyProgress(days, fails)
    \/ TickStats(1, 12)

SpecStatsFault == InitStatsRead /\ [][NextStatsFault]_vars

\* the service worker: the alarm, the user's tab activity, the setting
InitBackground ==
    /\ now = 0
    /\ lastOp = "init"
    /\ SchedIdle
    /\ DbIdle
    /\ StatsIdle(0)
    /\ BgIdle

NextBackground ==
    \/ BgTick
    \/ TabActivity
    \/ CheckBrowsingActivity
    \/ \E value \in BOOLEAN : SetNotificationsEnabled(value)

SpecBackground == InitBackground /\ [][NextBackground]_vars

\* the statistics with overlapping updateLearningStats calls
InitStatsConc ==
    /\ now = 12
    /\ lastOp = "init"
    /\ SchedIdle
    /\ DbIdle
    /\ StatsIdle(0)
    /\ BgIdle

NextStatsConc ==
    \/ \E p \in ProcIds, c \in BOOLEAN : StatsBegin(p, c)
    \/ \E p \in ProcIds, s \in TzShifts : StatsRead(p, s)
    \/ \E p \in ProcIds : StatsWrite(p)
    \/ \E p \in ProcIds : DailyRead(p)
    \/ \E p \in ProcIds : DailyWrite(p)

SpecStatsConc == InitStatsConc /\ [][NextStatsConc]_vars

-----------------------------------------------------------------------------
(* Properties                                                              *)

Called == lastOp = "calculateNextReview"
Queried == lastOp = "getVocabularyForReview" /\ ~due.threw
Updated == lastOp = "updateLearningStats"

\* C1: whatever the prior state of the item, a call of calculateNextReview
\* with a quality below 3 returns interval 1.
C1_FailedRecallIntervalOne ==
    (Called /\ quality < 6) => (~result.threw /\ result.interval = 1)

\* C1 witness: a reviewed item with an earlier interval of several days and a
\* grown ease factor was just scheduled with a quality below 3.
C1_Witness ==
    /\ Called /\ quality < 6
    /\ item.lastReviewed # Undefined /\ item.nextReview # Undefined
    /\ item.nextReview - item.lastReviewed > 2 * HoursPerDay
    /\ calls > 1
    /\ result.interval = 1

\* C2: fed back call after call from an ease factor within [1.3, 3.0], the
\* ease factor calculateNextReview returns stays within [1.3, 3.0].
C2_EaseFactorWithinRange ==
    (Called /\ ~result.threw) =>
        (MinEase <= result.easeFactor /\ result.easeFactor <= MaxEase)

\* C3: on one prior state, the interval returned for a quality of 4 or more
\* is strictly greater than the interval returned for a quality of 2 or less.
C3_HigherQualityLongerInterval ==
    (Called /\ ~result.threw /\ quality >= 8) =>
        \A ql \in Qualities :
            ql <= 4 => result.interval > calculateNextReview(item, ql, now).interval

\* C4: when updateVocabularyProgress calls for one word overlap, the stored
\* record reflects every completed call: its counters count all of them.
C4_OverlappingReviewsAllCounted ==
    (\A t \in TaskIds : tasks[t].pc = "idle") =>
        \A w \in WordIds :
            reviewed[w].correct + reviewed[w].incorrect > 0 =>
                /\ w \in DOMAIN progress
                /\ progress[w].correctCount = reviewed[w].correct
                /\ progress[w].incorrectCount = reviewed[w].incorrect

\* the entry of a date in the stored history, as a set (empty when there is none)
EntriesOf(date) ==
    {settings.progressHistory[i] : i \in {j \in 1..Len(settings.progressHistory) :
                                              settings.progressHistory[j].date = date}}

\* C5: when updateLearningStats calls overlap no increment is lost: the
\* totals and today's history entry count every completed call.
C5_OverlappingStatsAllCounted ==
    ((\A p \in ProcIds : procs[p].pc = "idle") /\ recorded.calls > 0) =>
        /\ settings.reviewsTotal = recorded.calls
        /\ settings.correctAnswers = recorded.correct
        /\ settings.incorrectAnswers = recorded.calls - recorded.correct
        /\ \E e \in EntriesOf(DayOf(now)) : e.reviewCount = recorded.calls

\* C6: a review on a new day sets streak to the previous streak + 1 when the
\* last review was on the day before today, and to 1 otherwise.
C6_StreakOnNewDay ==
    (Updated /\ (before.lastReviewDate = Undefined
                 \/ DayOf(before.lastReviewDate) # DayOf(now))) =>
        settings.streak =
            IF /\ before.lastReviewDate # Undefined
               /\ DayOf(before.lastReviewDate) = DayOf(now) - 1
            THEN before.streak + 1
            ELSE 1

\* C7: streak grows by at most one per call, only on the first review of a
\* day that immediately follows the day of the previous review (or on the
\* first review ever), and is unchanged by a review that is not the first of
\* its day.
C7_StreakIncrements ==
    Updated =>
        /\ settings.streak <= before.streak + 1
        /\ settings.streak > before.streak =>
               \/ before.lastReviewDate = Undefined
               \/ DayOf(before.lastReviewDate) = DayOf(now) - 1
        /\ (before.lastReviewDate # Undefined
            /\ DayOf(before.lastReviewDate) = DayOf(now)) =>
               settings.streak = before.streak

\* the n latest of a set of days
MostRecent(days, n) == {d \in days : Cardinality({e \in days : e > d}) < n}

\* C8: the stored history holds at most 30 entries, is sorted descending by
\* date, and its dates are the 30 most recent days recorded.
C8_HistoryKeepsMostRecent ==
    LET h == settings.progressHistory
    IN  /\ Len(h) <= 30
        /\ \A i \in 1..Len(h) : \A j \in (i + 1)..Len(h) : h[i].date >= h[j].date
        /\ {h[i].date : i \in 1..Len(h)} = MostRecent(recorded.days, 30)
        /\ Len(h) = Cardinality(MostRecent(recorded.days, 30))

\* C8 witness: more than 30 days have been recorded and the call just made
\* evicted the oldest entry.
C8_Witness ==
    /\ Updated
    /\ Cardinality(recorded.days) > 31
    /\ Len(before.progressHistory) = 30
    /\ Len(settings.progressHistory) = 30
    /\ before.progressHistory[30].date < settings.progressHistory[30].date

\* C9: getVocabularyForReview returns no item whose stored nextReview is
\* later than now.
C9_NoItemBeforeItsDue ==
    Queried =>
        \A i \in 1..Len(due.items) :
            /\ due.items[i] \in DOMAIN progress
            /\ progress[due.items[i]].nextReview <= now

\* C9 witness: a query returned an item while another vocabulary item with a
\* stored record was not yet due.
C9_Witness ==
    /\ Queried
    /\ Len(due.items) > 0
    /\ \E w \in VocabularyIds : w \in DOMAIN progress /\ progress[w].nextReview > now

\* C10: the items getVocabularyForReview returns are in ascending order of
\* nextReview, items of equal nextReview in ascending order of id.
C10_EarliestDueFirst ==
    Queried =>
        \A i \in 1..Len(due.items) : \A j \in (i + 1)..Len(due.items) :
            LET a == due.items[i]
                b == due.items[j]
            IN  \/ progress[a].nextReview < progress[b].nextReview
                \/ progress[a].nextReview = progress[b].nextReview /\ a < b

\* C10 witness: a query returned the item of the larger id first because it
\* is due earlier.
C10_Witness ==
    /\ Queried
    /\ Len(due.items) >= 2
    /\ due.items[1] > due.items[2]
    /\ progress[due.items[1]].nextReview < progress[due.items[2]].nextReview

\* the item was reviewed before and carries the due date of that review
Reviewed == item.lastReviewed # Undefined /\ item.nextReview # Undefined

\* C11: on a first-ever review (the item has no lastReviewed)
\* calculateNextReview returns interval 3 for a quality of 4 or more, 2 for a
\* quality of 3 or more and below 4, and 1 for a quality below 3.
C11_FirstReviewInterval ==
    (Called /\ item.lastReviewed = Undefined) =>
        /\ ~result.threw
        /\ result.interval = IF quality >= 8 THEN 3 ELSE IF quality >= 6 THEN 2 ELSE 1

\* C11 witness: a never-reviewed item was scheduled with a quality of exactly 4
\* and got three days.
C11_Witness ==
    /\ Called /\ item.lastReviewed = Undefined
    /\ quality = 8
    /\ result.interval = 3

\* C12: on a later review with a quality of 3 or more, when the previous
\* interval (nextReview - lastReviewed in whole days, rounded up) is not 1, the
\* interval is round(previous interval * returned ease factor); ease factor
\* 2.5, previous interval 6 and quality 5 give ease factor 2.6 and interval 16.
C12_IntervalGrowsByUpdatedEase ==
    (Called /\ Reviewed /\ quality >= 6
     /\ Ceil(item.nextReview - item.lastReviewed, HoursPerDay) # 1) =>
        /\ ~result.threw
        /\ result.interval =
               Round(Ceil(item.nextReview - item.lastReviewed, HoursPerDay) * result.easeFactor,
                     EaseUnit)
        /\ (item.easeFactor = 2500 /\ item.nextReview - item.lastReviewed = 6 * HoursPerDay
            /\ quality >= 10) =>
               (result.easeFactor = 2600 /\ result.interval = 16)

\* C12 witness: the item with ease factor 2.5, reviewed six days before it was
\* due, was scheduled with quality 5 and got ease factor 2.6 and 16 days.
C12_Witness ==
    /\ Called /\ Reviewed /\ quality = 10
    /\ item.easeFactor = 2500
    /\ item.nextReview - item.lastReviewed = 6 * HoursPerDay
    /\ result.easeFactor = 2600
    /\ result.interval = 16

\* C13: on a later review with a quality of 3 or more, when the previous
\* interval (nextReview - lastReviewed in whole days, rounded up) is 1, the
\* interval is 6 whatever the ease factor.
C13_SecondIntervalSix ==
    (Called /\ Reviewed /\ quality >= 6
     /\ Ceil(item.nextReview - item.lastReviewed, HoursPerDay) = 1) =>
        (~result.threw /\ result.interval = 6)

\* C13 witness: an item of the largest ease factor whose previous interval was
\* half a day (one day, rounded up) was scheduled with quality 3 and got 6 days.
C13_Witness ==
    /\ Called /\ Reviewed /\ quality = 6
    /\ item.easeFactor = MaxEase
    /\ item.nextReview - item.lastReviewed = HoursPerDay \div 2
    /\ result.interval = 6

\* C14: on a later review, for every quality in 0..5 and every prior ease
\* factor in [1.3, 3.0], the returned ease factor is the prior one plus
\* 0.1 - (5 - quality) * (0.08 + (5 - quality) * 0.02), clamped to [1.3, 3.0].
C14_EaseFactorRecurrence ==
    (Called /\ ~result.threw /\ item.lastReviewed # Undefined
     /\ quality \in {2 * k : k \in 0..5}
     /\ item.easeFactor >= 1300 /\ item.easeFactor <= 3000) =>
        LET d     == MaxQuality - quality
            moved == item.easeFactor + 100 - 40 * d - 5 * d * d
        IN  result.easeFactor = IF moved < 1300 THEN 1300
                                ELSE IF moved > 3000 THEN 3000 ELSE moved

StoredOrDefault(store, w) ==
    IF w \in DOMAIN store THEN store[w]
    ELSE [correctCount |-> 0, incorrectCount |-> 0, easeFactor |-> 2500]

\* C16: an updateVocabularyProgress call with correct = true, on the stored
\* state or on the default state when none is stored, adds 1 to correctCount,
\* leaves incorrectCount, sets easeFactor to min(easeFactor + 0.1, 3.0),
\* lastReviewed to now and nextReview to now + round(correctCount * easeFactor)
\* days, with the updated correctCount and easeFactor.
C16_CorrectOutcome ==
    [][\A w \in WordIds :
          reviewed'[w].correct = reviewed[w].correct + 1 =>
              LET old == StoredOrDefault(progress, w)
                  c   == old.correctCount + 1
                  e   == IF old.easeFactor + 100 > 3000 THEN 3000 ELSE old.easeFactor + 100
              IN  /\ w \in DOMAIN progress'
                  /\ progress'[w].correctCount = c
                  /\ progress'[w].incorrectCount = old.incorrectCount
                  /\ progress'[w].easeFactor = e
                  /\ progress'[w].lastReviewed = now
                  /\ progress'[w].nextReview = now + Round(c * e, 1000) * HoursPerDay]_vars

\* C16 witness: a sixth correct outcome in a row was stored, the one on which
\* the limit of 3.0 holds the ease factor.
C16_Witness ==
    /\ lastOp = "updateVocabularyProgress"
    /\ reviewed[1] = [correct |-> 6, incorrect |-> 0]
    /\ progress[1].correctCount = 6
    /\ progress[1].easeFactor = 3000
    /\ progress[1].nextReview = progress[1].lastReviewed + 18 * HoursPerDay

\* C17: an updateVocabularyProgress call with correct = false adds 1 to
\* incorrectCount, leaves correctCount, sets easeFactor to
\* max(easeFactor - 0.2, 1.3), lastReviewed to now and nextReview to now + 1 hour.
C17_IncorrectOutcome ==
    [][\A w \in WordIds :
          reviewed'[w].incorrect = reviewed[w].incorrect + 1 =>
              LET old == StoredOrDefault(progress, w)
              IN  /\ w \in DOMAIN progress'
                  /\ progress'[w].incorrectCount = old.incorrectCount + 1
                  /\ progress'[w].correctCount = old.correctCount
                  /\ progress'[w].easeFactor =
                         IF old.easeFactor - 200 < 1300 THEN 1300 ELSE old.easeFactor - 200
                  /\ progress'[w].lastReviewed = now
                  /\ progress'[w].nextReview = now + 1]_vars

\* C17 witness: a seventh incorrect outcome in a row was stored, the one on
\* which the limit of 1.3 holds the ease factor.
C17_Witness ==
    /\ lastOp = "updateVocabularyProgress"
    /\ reviewed[1] = [correct |-> 0, incorrect |-> 7]
    /\ progress[1].incorrectCount = 7
    /\ progress[1].easeFactor = 1300
    /\ progress[1].nextReview = progress[1].lastReviewed + 1

\* C18: after any sequence of updateVocabularyProgress calls from an empty
\* store, every stored easeFactor is within [1.3, 3.0].
C18_StoredEaseWithinRange ==
    \A w \in DOMAIN progress :
        progress[w].easeFactor >= 1300 /\ progress[w].easeFactor <= 3000

\* C18 witness: the longest sequence of calls has run and the ease factor
\* stands at one of its two limits.
C18_Witness ==
    /\ lastOp = "updateVocabularyProgress"
    /\ reviewed[1].correct + reviewed[1].incorrect = MaxSequence
    /\ progress[1].easeFactor \in {1300, 3000}

\* C19: after every update, the first included, the stored record has
\* nextReview >= lastReviewed.
C19_NextReviewNotBeforeLast ==
    \A w \in DOMAIN progress : progress[w].nextReview >= progress[w].lastReviewed

\* C19 witness: a word reviewed both ways was just reviewed again, later than
\* its previous due time, and is due one hour after this review.
C19_Witness ==
    /\ lastOp = "updateVocabularyProgress"
    /\ progress[1].correctCount > 0 /\ progress[1].incorrectCount > 1
    /\ progress[1].lastReviewed > 2 * HoursPerDay
    /\ progress[1].nextReview = progress[1].lastReviewed + 1

\* the counters stored for word w, zero when nothing is stored
CountersOf(store, w) ==
    IF w \in DOMAIN store
    THEN [correct |-> store[w].correctCount, incorrect |-> store[w].incorrectCount]
    ELSE [correct |-> 0, incorrect |-> 0]

\* C20: after n updates of a word from an empty store correctCount +
\* incorrectCount = n; the counters are never negative, never decrease, and
\* each update adds exactly 1 to exactly one of them.
C20_CountersCountReviews ==
    [][\A w \in WordIds :
          LET old == CountersOf(progress, w)
              new == CountersOf(progress', w)
              n   == reviewed'[w].correct + reviewed'[w].incorrect
          IN  /\ new.correct + new.incorrect = n
              /\ new.correct >= old.correct /\ old.correct >= 0
              /\ new.incorrect >= old.incorrect /\ old.incorrect >= 0
              /\ n # reviewed[w].correct + reviewed[w].incorrect =>
                     \/ new.correct = old.correct + 1 /\ new.incorrect = old.incorrect
                     \/ new.correct = old.correct /\ new.incorrect = old.incorrect + 1]_vars

\* C20 witness: a word has been reviewed several times with outcomes of both kinds.
C20_Witness ==
    /\ lastOp = "updateVocabularyProgress"
    /\ progress[1].correctCount >= 3
    /\ progress[1].incorrectCount >= 3

\* C22: when the item has nextReview earlier than lastReviewed,
\* calculateNextReview does not fail and schedules it like a first review:
\* interval 1, 2 or 3 by quality and a nextReview later than now, never an
\* interval of 0 or less.
C22_InconsistentItemRescheduled ==
    (Called /\ Reviewed /\ item.nextReview < item.lastReviewed) =>
        /\ ~result.threw
        /\ result.interval = IF quality >= 8 THEN 3 ELSE IF quality >= 6 THEN 2 ELSE 1
        /\ result.interval > 0
        /\ result.nextReview > now

\* C29: getVocabularyForReview(limit) returns at most limit items, each an
\* existing vocabulary item, and an empty sequence when no item is due.
C29_AtMostLimitExistingItems ==
    Queried =>
        /\ Len(due.items) <= due.limit
        /\ \A i \in 1..Len(due.items) : due.items[i] \in VocabularyIds
        /\ (\A w \in DOMAIN progress : progress[w].nextReview > now) => due.items = <<>>

\* C30: a due-items request (getVocabularyForReview or getDueReviews) with a
\* negative limit is rejected with an error and returns no result sequence.
C30_NegativeLimitRejected ==
    (lastOp \in {"getVocabularyForReview", "getDueReviews"} /\ due.limit < 0) => due.threw

\* the dates of a history, and its entries of one date
DatesOf(h) == {h[i].date : i \in 1..Len(h)}
EntriesAt(h, date) == {h[i] : i \in {j \in 1..Len(h) : h[j].date = date}}

\* C21: when a store read or write made in the course of updateLearningStats
\* fails (a read of the statistics, a write of them, the read or the write of
\* the daily history), the call fails instead of returning statistics.
C21_StoreFailureSurfaced ==
    (Updated /\ returned.failed # 0) => returned.threw

\* C23: getLearningStats writes nothing to the store, and a call that follows
\* another with no store write between them returns the same values.
C23_GetStatsIdempotent ==
    [][lastOp' = "getLearningStats" =>
          /\ settings' = settings
          /\ returned.op = "getLearningStats" => returned'.stats = returned.stats]_vars

\* C23 witness: the statistics of a store that holds reviews were read on a
\* later day than the last review.
C23_Witness ==
    /\ lastOp = "getLearningStats"
    /\ returned.stats.reviewsTotal >= 2
    /\ returned.stats.reviewsTotal = settings.reviewsTotal
    /\ returned.stats.lastReviewDate < now

\* C24: updateLearningStats sets reviewsToday to 1 on the first review of a
\* calendar day and to the previous reviewsToday + 1 otherwise.
C24_ReviewsTodayResets ==
    Updated =>
        settings.reviewsToday =
            IF DayOf(now) \in DatesOf(before.progressHistory)
            THEN before.reviewsToday + 1
            ELSE 1

\* C24 witness: the first review of a day after a day of several reviews.
C24_Witness ==
    /\ Updated
    /\ before.reviewsToday >= 2
    /\ settings.reviewsToday = 1

\* C25: each updateLearningStats(correct) call adds 1 to reviewsTotal, and 1 to
\* correctAnswers alone when correct is true, to incorrectAnswers alone when
\* correct is false.
C25_TotalsCountOutcome ==
    Updated =>
        /\ settings.reviewsTotal = before.reviewsTotal + 1
        /\ settings.correctAnswers = before.correctAnswers + (IF recorded.last THEN 1 ELSE 0)
        /\ settings.incorrectAnswers = before.incorrectAnswers + (IF recorded.last THEN 0 ELSE 1)

\* C25 witness: an incorrect answer was counted after answers of both kinds.
C25_Witness ==
    /\ Updated /\ ~recorded.last
    /\ before.correctAnswers > 0 /\ before.incorrectAnswers > 0
    /\ settings.incorrectAnswers = before.incorrectAnswers + 1

\* C26: after every updateLearningStats call the stored and the returned
\* learned-words count is min(1000, floor(correctAnswers / 3)) of the updated
\* correctAnswers.
C26_LearnedWordsCount ==
    Updated =>
        LET learned == IF settings.correctAnswers \div 3 > 1000 THEN 1000
                       ELSE settings.correctAnswers \div 3
        IN  /\ settings.learnedWordsCount = learned
            /\ returned.stats.learnedWordsCount = learned
            /\ returned.stats.correctAnswers = settings.correctAnswers

\* C26 witness: a third of the correct answers exceeds the number of words
\* and the count stands at 1000.
C26_Witness ==
    /\ Updated
    /\ settings.correctAnswers \div 3 > 1000
    /\ settings.correctAnswers > before.correctAnswers
    /\ settings.learnedWordsCount = 1000

\* C27: each updateLearningStats(correct) call upserts the history entry of
\* today: its reviewCount grows by 1 (from 0 when absent), its correctCount by
\* 1 iff correct; no two entries share a date; entries of other dates are
\* not modified.
C27_HistoryUpsert ==
    Updated =>
        LET old   == before.progressHistory
            new   == settings.progressHistory
            today == DayOf(now)
            was   == IF today \in DatesOf(old)
                     THEN CHOOSE e \in EntriesAt(old, today) : TRUE
                     ELSE [date |-> today, reviewCount |-> 0, correctCount |-> 0]
        IN  /\ EntriesAt(new, today) =
                   {[date |-> today, reviewCount |-> was.reviewCount + 1,
                     correctCount |-> was.correctCount + (IF recorded.last THEN 1 ELSE 0)]}
            /\ \A i \in 1..Len(new) : \A j \in (i + 1)..Len(new) : new[i].date # new[j].date
            /\ \A d \in DatesOf(new) \ {today} : EntriesAt(new, d) = EntriesAt(old, d)
            /\ \A d \in DatesOf(old) \ {today} : d \in DatesOf(new) \/ Len(new) = 30

\* C27 witness: an incorrect answer on a day that already had a correct one,
\* in a history with entries of other days.
C27_Witness ==
    /\ Updated /\ ~recorded.last
    /\ Len(before.progressHistory) >= 2
    /\ \E e \in EntriesAt(before.progressHistory, DayOf(now)) : e.correctCount >= 1
    /\ \E e \in EntriesAt(settings.progressHistory, DayOf(now)) :
           e.reviewCount >= 2 /\ e.correctCount < e.reviewCount

C31_PureFunction ==
    [][lastOp' = "calculateNextReview" =>
          /\ item' = item
          /\ progress' = progress /\ settings' = settings
          /\ ~result'.threw => result'.nextReview = now' + result'.interval * 24
          /\ (lastOp = "calculateNextReview" /\ quality' = quality /\ now' = now) =>
                 result' = result]_vars

\* C31 witness: a reviewed item, still as it was handed over the first time,
\* was scheduled for the second time in a row and got several days.
C31_Witness ==
    /\ Called /\ Reviewed
    /\ calls >= 2
    /\ item.lastReviewed < now
    /\ now = MaxItemHalfDays * (HoursPerDay \div 2)
    /\ result.interval > 1
    /\ result.nextReview = now + result.interval * HoursPerDay

\* C32: processReviewResponse(wordId, correct) stores what the boolean rule
\* prescribes (ease factor +0.1 up to 3.0 and round(correctCount * easeFactor)
\* days, or -0.2 down to 1.3 and 1 hour) and no graded-quality formula touches
\* it; calculateNextReview changes no stored record and returns the ease
\* factor of the graded rule, never that of the boolean one.
C32_BothPathsOwnRules ==
    [][/\ lastOp' = "processReviewResponse" =>
             /\ item' = item /\ result' = result
             /\ \A w \in WordIds :
                    LET old == StoredOrDefault(progress, w)
                    IN  /\ reviewed'[w].correct = reviewed[w].correct + 1 =>
                               LET c == old.correctCount + 1
                                   e == IF old.easeFactor + 100 > 3000 THEN 3000
                                        ELSE old.easeFactor + 100
                               IN  /\ progress'[w].correctCount = c
                                   /\ progress'[w].incorrectCount = old.incorrectCount
                                   /\ progress'[w].easeFactor = e
                                   /\ progress'[w].lastReviewed = now
                                   /\ progress'[w].nextReview =
                                          now + ((2 * c * e + 1000) \div 2000) * 24
                        /\ reviewed'[w].incorrect = reviewed[w].incorrect + 1 =>
                               /\ progress'[w].correctCount = old.correctCount
                               /\ progress'[w].incorrectCount = old.incorrectCount + 1
                               /\ progress'[w].easeFactor =
                                      IF old.easeFactor - 200 < 1300 THEN 1300
                                      ELSE old.easeFactor - 200
                               /\ progress'[w].lastReviewed = now
                               /\ progress'[w].nextReview = now + 1
                        /\ reviewed'[w] = reviewed[w] =>
                               (w \in DOMAIN progress' <=> w \in DOMAIN progress)
       /\ lastOp' = "calculateNextReview" =>
             /\ progress' = progress
             /\ ~result'.threw =>
                    LET q  == IF quality' > 10 THEN 10 ELSE IF quality' < 0 THEN 0 ELSE quality'
                        e0 == IF item.easeFactor = Undefined THEN 2500 ELSE item.easeFactor
                        e1 == e0 + 100 - 40 * (10 - q) - 5 * (10 - q) * (10 - q)
                    IN  result'.easeFactor =
                            IF item.lastReviewed = Undefined THEN e0
                            ELSE IF e1 < 1300 THEN 1300 ELSE e1]_vars

\* C32 witness: after a graded review was scheduled, a word answered right
\* and then wrong stands at ease factor 2.4, due in an hour.
C32_Witness ==
    /\ lastOp = "processReviewResponse"
    /\ calls >= 1 /\ result.interval >= 1
    /\ 1 \in DOMAIN progress
    /\ progress[1].correctCount = 1 /\ progress[1].incorrectCount = 1
    /\ progress[1].easeFactor = 2400
    /\ progress[1].nextReview = now + 1

\* C33: an item whose lastReviewed is the epoch (the default state of
\* updateVocabularyProgress) counts as never reviewed: calculateNextReview
\* gives it the first-review interval 1, 2 or 3 by quality, and all it would
\* give the same item with no lastReviewed.
C33_EpochMeansNeverReviewed ==
    (Called /\ item.lastReviewed = 0) =>
        /\ ~result.threw
        /\ result.interval = IF quality >= 8 THEN 3 ELSE IF quality >= 6 THEN 2 ELSE 1
        /\ result = calculateNextReview([item EXCEPT !.lastReviewed = Undefined], quality, now)

C35_FailedUpdateWritesNothing ==
    (Updated /\ returned.threw) => settings = before

\* C36: after any sequence of updateLearningStats calls made one after the
\* other, reviewsTotal = correctAnswers + incorrectAnswers, and reviewsToday
\* is the reviewCount of the history entry of the date of the last review.
C36_TotalsAndTodayAgree ==
    /\ settings.reviewsTotal = settings.correctAnswers + settings.incorrectAnswers
    /\ settings.lastReviewDate # Undefined =>
           LET last == EntriesAt(settings.progressHistory, settings.lastReviewDate \div 24)
           IN  /\ last # {}
               /\ \A e \in last : e.reviewCount = settings.reviewsToday

\* C36 witness: the second review of a day, an incorrect one, in a store that
\* holds reviews of an earlier day.
C36_Witness ==
    /\ Updated /\ ~recorded.last
    /\ settings.reviewsToday = 2
    /\ settings.reviewsTotal > 2
    /\ settings.incorrectAnswers >= 1
    /\ Len(settings.progressHistory) >= 2

\* the other stored records that are due and come before that of w: those of
\* an earlier nextReview, or of the same nextReview and a smaller wordId
DueBefore(store, w, clock) ==
    {v \in (DOMAIN store) \ {w} :
        /\ store[v].nextReview <= clock
        /\ \/ store[v].nextReview < store[w].nextReview
           \/ store[v].nextReview = store[w].nextReview /\ v < w}

\* C37: a review of item w recorded at time t makes it due at t + 1 hour
\* (incorrect) or t + round(correctCount * easeFactor) days (correct);
\* getVocabularyForReview does not return w while the clock is before that
\* time, and returns it from then on, until w is reviewed again, whenever
\* fewer than limit other records are due before it.
C37_DueFromNextReview ==
    [][/\ \A w \in WordIds :
             /\ reviewed'[w].correct = reviewed[w].correct + 1 =>
                    progress'[w].nextReview = now +
                        ((2 * progress'[w].correctCount * progress'[w].easeFactor + 1000)
                             \div 2000) * 24
             /\ reviewed'[w].incorrect = reviewed[w].incorrect + 1 =>
                    progress'[w].nextReview = now + 1
             /\ reviewed'[w] = reviewed[w] =>
                    (w \in DOMAIN progress => progress'[w] = progress[w])
       /\ (lastOp' = "getVocabularyForReview" /\ ~due'.threw) =>
             \A w \in VocabularyIds \cap DOMAIN progress :
                 LET returned_w == \E i \in 1..Len(due'.items) : due'.items[i] = w
                 IN  /\ now < progress[w].nextReview => ~returned_w
                     /\ (now >= progress[w].nextReview
                         /\ Cardinality(DueBefore(progress, w, now)) < due'.limit) =>
                            returned_w]_vars

\* C37 witness: with a limit of one, a query made after the due time of an
\* item returned it, ahead of another item that was due as well.
C37_Witness ==
    /\ Queried /\ due.limit = 1
    /\ \E w \in VocabularyIds \cap DOMAIN progress :
           /\ due.items = <<w>>
           /\ now > progress[w].nextReview
           /\ progress[w].nextReview > progress[w].lastReviewed
           /\ \E v \in VocabularyIds \cap DOMAIN progress :
                  v # w /\ progress[v].nextReview <= now

\* C38: getVocabularyForReview returns only items that have a stored record:
\* a vocabulary item that was never reviewed is never among the items returned.
C38_OnlyReviewedItemsDue ==
    Queried =>
        \A i \in 1..Len(due.items) :
            /\ due.items[i] \in DOMAIN progress
            /\ reviewed[due.items[i]].correct + reviewed[due.items[i]].incorrect > 0

\* C38 witness: every due item was asked for, some time after the start, and
\* one came back while another vocabulary item had never been reviewed.
C38_Witness ==
    /\ Queried /\ due.limit = 0
    /\ now > 0
    /\ Len(due.items) >= 1
    /\ \E v \in VocabularyIds :
           v \notin DOMAIN progress /\ reviewed[v].correct + reviewed[v].incorrect = 0

\* C39: the browsing-pause check creates the notification only when the last
\* user activity (tab update or activation) is more than 2 and less than 10
\* minutes back and notificationsEnabled is set; in a long break, 10 minutes
\* or more without user activity, no check creates it.
C39_PromptOnlyInShortPause ==
    (lastOp = "checkBrowsingActivity" /\ notification.created) =>
        /\ minute - lastActivity > 2
        /\ minute - lastActivity < 10
        /\ notificationsEnabled

====
